---- MODULE Spec2Model ----
(***************************************************************************)
(* A model of task_system.py: the SystemTask constructor (validation of    *)
(* the task list and of the precedence mapping, construction of the        *)
(* maximum-parallelism mapping), the wave scheduler SystemTask.run and the *)
(* sequential SystemTask.runSeq.                                           *)
(*                                                                         *)
(* Python lists whose order the code never reads (reads, writes, the       *)
(* dependency lists) are sets here: the code only tests membership in      *)
(* them, intersects them as sets, or turns them into graph edges.  The     *)
(* task list keeps its order, which decides the direction of the derived   *)
(* edges.                                                                  *)
(***************************************************************************)
EXTENDS Naturals, Sequences, FiniteSets

\* The longest task list handed to the constructor.
MaxTasks == 3

\* The most resource names one task declares (reads and writes together).
MaxAccess == 1

\* The task names the enumerated inputs are drawn from.
Names == {"A", "B", "C"}

\* Every task name: those of the enumerated inputs and of the inputs of test.py.
AllNames == Names \cup {"D", "E"}

\* The resource names the inputs are drawn from.
Resources == {"x", "y"}

\* The largest pool of worker threads: as many as the largest wave of the
\* enumerated inputs, so that a pool never limits a wave, down to one.
MaxWorkers == 3

\* The most calls of _are_tasks_interfering whose results are kept.
MaxChecks == 2

\* The largest number of calls of run() and runSeq() on one context.
MaxCalls == 2

VARIABLES
    tasks,                \* constructor argument: the list of Task objects
    precedences,          \* constructor argument: dict name -> dependency list
    status,               \* "new", "ok", or the error the constructor raised
    sysTasks,             \* self.tasks: dict name -> Task
    initial_precedences,  \* self.initial_precedences
    max_parallelism,      \* self.max_parallelism
    pc,                   \* position of the thread that calls run()
    completed,            \* run(): the completed set
    wave,                 \* run(): the names submitted in the current wave
    wstate,               \* run(): per task, how far execute_task has got
    poolSize,             \* run(): max_workers of the ThreadPoolExecutor
    visited,              \* runSeq(): the nodes of execution_order gone through
    interfere,            \* the calls of _are_tasks_interfering and their results
    waveNo,               \* run(): the passes of the while loop that submitted tasks
    calls,                \* the calls of run() and runSeq() that have ended
    rebuilt               \* the mappings later calls of _build_max_parallelism returned

vars == <<tasks, precedences, status, sysTasks, initial_precedences,
          max_parallelism, pc, completed, wave, wstate, poolSize, visited,
          interfere, waveNo, calls, rebuilt>>

\* The empty dict.
EmptyDict == [n \in {} |-> {}]

----------------------------------------------------------------------------
(* Task *)

Task(name, reads, writes) == [name |-> name, reads |-> reads, writes |-> writes]

\* task_names = [task.name for task in tasks]
TaskNameList(ts) == [i \in DOMAIN ts |-> ts[i].name]

SeqToSet(s) == {s[i] : i \in DOMAIN s}

----------------------------------------------------------------------------
(* Directed graphs: nx.DiGraph, nx.is_directed_acyclic_graph *)

\* G.add_edge(dep, task) for every item of the mapping: the edges, as pairs
\* <<dep, task>>.
GraphEdges(mapping) ==
    UNION {{<<dep, task>> : dep \in mapping[task]} : task \in DOMAIN mapping}

\* G.add_node for every name of nodeNames; add_edge also adds both end points
\* as nodes.
GraphNodes(nodeNames, mapping) ==
    nodeNames \cup {e[1] : e \in GraphEdges(mapping)}
              \cup {e[2] : e \in GraphEdges(mapping)}

\* A directed graph is acyclic iff repeatedly removing the nodes without
\* incoming edge removes every node.
RECURSIVE IsDirectedAcyclicGraph(_, _)
IsDirectedAcyclicGraph(nodes, edges) ==
    IF nodes = {} THEN TRUE
    ELSE LET zero == {n \in nodes : ~\E e \in edges : e[2] = n}
         IN  IF zero = {} THEN FALSE
             ELSE IsDirectedAcyclicGraph(nodes \ zero,
                      {e \in edges : e[1] \notin zero /\ e[2] \notin zero})

----------------------------------------------------------------------------
(* SystemTask._validate_tasks *)

\* len(task_names) != len(set(task_names))
ValidateTasks(ts) ==
    IF Len(TaskNameList(ts)) # Cardinality(SeqToSet(TaskNameList(ts)))
    THEN "duplicate" ELSE "ok"

(* SystemTask._validate_precedences *)

MissingTasks(ts, prec) == SeqToSet(TaskNameList(ts)) \ DOMAIN prec

\* HasDanglingDependency without the loop over the dependencies.
NoDanglingCheck(ts, prec) == FALSE

HasDanglingDependency(ts, prec) ==
    \E task \in DOMAIN prec : \E dep \in prec[task] :
        dep \notin SeqToSet(TaskNameList(ts))

\* ValidatePrecedences with the dependency loop ahead of the missing-task test.
ValidatePrecedencesDanglingFirst(ts, prec) ==
    IF HasDanglingDependency(ts, prec) THEN "dangling"
    ELSE IF MissingTasks(ts, prec) # {} THEN "missing"
    ELSE IF ~IsDirectedAcyclicGraph(
                 GraphNodes(SeqToSet(TaskNameList(ts)), prec), GraphEdges(prec))
         THEN "cycle"
    ELSE "ok"

ValidatePrecedences(ts, prec) ==
    IF MissingTasks(ts, prec) # {} THEN "missing"
    ELSE IF HasDanglingDependency(ts, prec) THEN "dangling"
    ELSE IF ~IsDirectedAcyclicGraph(
                 GraphNodes(SeqToSet(TaskNameList(ts)), prec), GraphEdges(prec))
         THEN "cycle"
    ELSE "ok"

----------------------------------------------------------------------------
(* SystemTask._are_tasks_interfering *)

\* AreTasksInterfering with the write/write test only.
InterferingWritesOnly(task1, task2) ==
    IF task1.writes \cap task2.writes # {} THEN TRUE
    ELSE FALSE

\* AreTasksInterfering that also counts a read/read overlap.
InterferingOnAnyOverlap(task1, task2) ==
    IF (task1.reads \cup task1.writes) \cap (task2.reads \cup task2.writes) # {}
    THEN TRUE
    ELSE FALSE

\* AreTasksInterfering without its third test (reads of task1, writes of task2).
InterferingWithoutThirdTest(task1, task2) ==
    IF task1.writes \cap task2.writes # {} THEN TRUE
    ELSE IF task1.writes \cap task2.reads # {} THEN TRUE
    ELSE FALSE

\* AreTasksInterfering answering True for every pair.
AlwaysInterfering(task1, task2) == TRUE

AreTasksInterfering(task1, task2) ==
    IF task1.writes \cap task2.writes # {} THEN TRUE
    ELSE IF task1.writes \cap task2.reads # {} THEN TRUE
    ELSE IF task1.reads \cap task2.writes # {} THEN TRUE
    ELSE FALSE

\* A call system._are_tasks_interfering(tasks[i], tasks[j]) on the constructed
\* system, as test_resource_interference makes them; the result is kept.
CheckInterference ==
    /\ pc = "constructed"
    /\ Cardinality(interfere) < MaxChecks
    /\ \E i, j \in DOMAIN tasks :
           interfere' = interfere \cup
               {[first |-> i, second |-> j,
                 result |-> AreTasksInterfering(tasks[i], tasks[j])]}
    /\ UNCHANGED <<tasks, precedences, status, sysTasks, initial_precedences,
                   max_parallelism, pc, completed, wave, wstate, poolSize,
                   visited, waveNo, calls, rebuilt>>

----------------------------------------------------------------------------
(* SystemTask._build_max_parallelism *)

\* CopyPrecedences keeping the keys and dropping the dependencies.
EmptyLists(prec) == [name \in DOMAIN prec |-> {}]

\* max_parallel = {name: list(deps) for name, deps in initial_precedences.items()}
CopyPrecedences(prec) == [name \in DOMAIN prec |-> prec[name]]

\* PairStep that appends the later task to the list of the earlier one.
PairStepReversed(mp, tdict, task_names, i, j) ==
    LET task1_name == task_names[i]
        task2_name == task_names[j]
    IN  IF task2_name \in mp[task1_name] \/ task1_name \in mp[task2_name]
        THEN mp
        ELSE IF (tdict[task1_name].writes \cap tdict[task2_name].writes # {}
                 \/ tdict[task1_name].writes \cap tdict[task2_name].reads # {}
                 \/ tdict[task1_name].reads \cap tdict[task2_name].writes # {})
             THEN [mp EXCEPT ![task1_name] = @ \cup {task2_name}]
             ELSE mp

\* One pass of the body of the inner loop, for task_names[i] and task_names[j].
PairStep(mp, tdict, task_names, i, j) ==
    LET task1_name == task_names[i]
        task2_name == task_names[j]
    IN  IF task2_name \in mp[task1_name] \/ task1_name \in mp[task2_name]
        THEN mp
        ELSE IF AreTasksInterfering(tdict[task1_name], tdict[task2_name])
             THEN [mp EXCEPT ![task2_name] = @ \cup {task1_name}]
             ELSE mp

\* for task2_name in task_names[i+1:]
RECURSIVE InnerLoop(_, _, _, _, _)
InnerLoop(mp, tdict, task_names, i, j) ==
    IF j > Len(task_names) THEN mp
    ELSE InnerLoop(PairStep(mp, tdict, task_names, i, j), tdict, task_names, i, j + 1)

\* InnerStart one too far: task_names[i+2:].
InnerStartSkipsNext(i) == i + 2

\* The first task2 index of the inner loop: task_names[i+1:].
InnerStart(i) == i + 1

\* for i, task1_name in enumerate(task_names)
RECURSIVE OuterLoop(_, _, _, _)
OuterLoop(mp, tdict, task_names, i) ==
    IF i > Len(task_names) THEN mp
    ELSE OuterLoop(InnerLoop(mp, tdict, task_names, i, InnerStart(i)),
                   tdict, task_names, i + 1)

\* The mapping after both loops (before the acyclicity check).
AugmentedMapping(tdict, task_names, prec) ==
    OuterLoop(CopyPrecedences(prec), tdict, task_names, 1)

\* MaxParallelismHasCycle without the test.
NoCycleCheck(task_names, mp) == FALSE

\* not nx.is_directed_acyclic_graph(G), G built from task_names and max_parallel
MaxParallelismHasCycle(task_names, mp) ==
    ~IsDirectedAcyclicGraph(GraphNodes(SeqToSet(task_names), mp), GraphEdges(mp))

----------------------------------------------------------------------------
(* SystemTask.__init__ *)

\* self.tasks = {task.name: task for task in tasks}
TaskDict(ts) ==
    [name \in SeqToSet(TaskNameList(ts)) |->
        LET last == CHOOSE i \in DOMAIN ts :
                        /\ ts[i].name = name
                        /\ \A k \in DOMAIN ts : ts[k].name = name => k <= i
        IN  ts[last]]

\* The error the constructor raises on (ts, prec), or "ok".
ConstructOutcome(ts, prec) ==
    IF ValidateTasks(ts) # "ok" THEN ValidateTasks(ts)
    ELSE IF ValidatePrecedences(ts, prec) # "ok" THEN ValidatePrecedences(ts, prec)
    ELSE IF MaxParallelismHasCycle(TaskNameList(ts),
                AugmentedMapping(TaskDict(ts), TaskNameList(ts), prec))
         THEN "mp_cycle"
    ELSE "ok"

Construct ==
    /\ pc = "new"
    /\ status' = ConstructOutcome(tasks, precedences)
    /\ IF status' = "ok"
       THEN /\ sysTasks' = TaskDict(tasks)
            /\ initial_precedences' = precedences
            /\ max_parallelism' =
                   AugmentedMapping(TaskDict(tasks), TaskNameList(tasks), precedences)
            /\ pc' = "constructed"
       ELSE /\ pc' = "raised"
            /\ UNCHANGED <<sysTasks, initial_precedences, max_parallelism>>
    /\ UNCHANGED <<tasks, precedences, completed, wave, wstate, poolSize,
                   visited, interfere,
                   waveNo, calls, rebuilt>>

----------------------------------------------------------------------------
(* SystemTask.run *)

\* RunCall when the completed set is kept from the call before.
RunCallKeepsCompleted ==
    /\ pc = "constructed"
    /\ wave' = {}
    /\ wstate' = [n \in AllNames |-> "none"]
    /\ waveNo' = 0
    /\ poolSize' \in 1..MaxWorkers
    /\ pc' = "loop"
    /\ UNCHANGED <<tasks, precedences, status, sysTasks, initial_precedences,
                   max_parallelism, completed, visited, interfere, calls, rebuilt>>

\* completed = set(); completed_lock = threading.Lock(); the executor is
\* entered, with the number of workers the host gives it and no future yet.
RunCall ==
    /\ pc = "constructed"
    /\ completed' = {}
    /\ wave' = {}
    /\ wstate' = [n \in AllNames |-> "none"]
    /\ waveNo' = 0
    /\ poolSize' \in 1..MaxWorkers
    /\ pc' = "loop"
    /\ UNCHANGED <<tasks, precedences, status, sysTasks, initial_precedences,
                   max_parallelism, visited, interfere, calls, rebuilt>>

\* ReadyTasks without the test of the dependencies.
ReadyTasksIgnoringDeps(tdict, mp, done) ==
    {task_name \in DOMAIN tdict : task_name \notin done}

\* ReadyTasks that stops at the first ready task it finds.
ReadyTasksFirstOnly(tdict, mp, done) ==
    LET ready == {task_name \in DOMAIN tdict :
                     /\ task_name \notin done
                     /\ \A dep \in mp[task_name] : dep \in done}
    IN  IF ready = {} THEN {} ELSE {CHOOSE task_name \in ready : TRUE}

\* ReadyTasks that is content with one completed dependency.
ReadyTasksAnyDepDone(tdict, mp, done) ==
    {task_name \in DOMAIN tdict :
        /\ task_name \notin done
        /\ mp[task_name] = {} \/ \E dep \in mp[task_name] : dep \in done}

\* The readiness scan: the tasks not completed whose dependencies are all
\* completed.
ReadyTasks(tdict, mp, done) ==
    {task_name \in DOMAIN tdict :
        /\ task_name \notin done
        /\ \A dep \in mp[task_name] : dep \in done}

\* One pass of the while loop up to the submission of the ready tasks: the
\* loop test, the scan, then executor.submit for every ready task, or the
\* deadlock error; the return when the loop test fails.
LoopStep ==
    /\ pc = "loop"
    /\ IF Cardinality(completed) < Cardinality(DOMAIN sysTasks)
       THEN LET ready_tasks == ReadyTasks(sysTasks, max_parallelism, completed)
            IN  IF ready_tasks # {}
                THEN /\ wave' = ready_tasks
                     /\ wstate' = [n \in AllNames |->
                                      IF n \in ready_tasks THEN "submitted"
                                      ELSE wstate[n]]
                     /\ waveNo' = waveNo + 1
                     /\ pc' = "wait"
                ELSE /\ pc' = "deadlock"
                     /\ UNCHANGED <<wave, wstate, waveNo>>
       ELSE /\ pc' = "returned"
            /\ UNCHANGED <<wave, wstate, waveNo>>
    /\ UNCHANGED <<tasks, precedences, status, sysTasks, initial_precedences,
                   max_parallelism, completed, poolSize, visited, interfere,
                   calls, rebuilt>>

\* BusyWorkers when a thread does not go back to the pool after its task.
BusyWorkersNeverFreed ==
    {n \in AllNames : wstate[n] \in {"running", "finished", "done", "failed"}}

\* The workers that are inside execute_task.
BusyWorkers == {n \in AllNames : wstate[n] \in {"running", "finished"}}

\* execute_task, picked up by a pool thread that is free: `if task.run:` then
\* the action starts; a task without action goes straight on to the lock.
ExecuteTaskStart(task_name) ==
    /\ wstate[task_name] = "submitted"
    /\ Cardinality(BusyWorkers) < poolSize
    /\ \E hasRun \in BOOLEAN :
           wstate' = [wstate EXCEPT ![task_name] =
                         IF hasRun THEN "running" ELSE "finished"]
    /\ UNCHANGED <<tasks, precedences, status, sysTasks, initial_precedences,
                   max_parallelism, pc, completed, wave, poolSize, visited,
                   interfere,
                   waveNo, calls, rebuilt>>

\* task.run() returns, or raises: the exception ends execute_task before the
\* lock is taken and is kept in the future.
ExecuteTaskAction(task_name) ==
    /\ wstate[task_name] = "running"
    /\ \E outcome \in {"finished", "failed"} :
           wstate' = [wstate EXCEPT ![task_name] = outcome]
    /\ UNCHANGED <<tasks, precedences, status, sysTasks, initial_precedences,
                   max_parallelism, pc, completed, wave, poolSize, visited,
                   interfere,
                   waveNo, calls, rebuilt>>

\* with completed_lock: completed.add(task_name); the future is then done.
ExecuteTaskRecord(task_name) ==
    /\ wstate[task_name] = "finished"
    /\ completed' = completed \cup {task_name}
    /\ wstate' = [wstate EXCEPT ![task_name] = "done"]
    /\ UNCHANGED <<tasks, precedences, status, sysTasks, initial_precedences,
                   max_parallelism, pc, wave, poolSize, visited, interfere,
                   waveNo, calls, rebuilt>>

\* WaitWave that goes on as soon as one future of the wave is done.
WaitFirstFuture ==
    /\ pc = "wait"
    /\ \E task_name \in wave : wstate[task_name] \in {"done", "failed"}
    /\ pc' = IF \E task_name \in wave : wstate[task_name] = "failed"
             THEN "run_raised" ELSE "loop"
    /\ UNCHANGED <<tasks, precedences, status, sysTasks, initial_precedences,
                   max_parallelism, completed, wave, wstate, poolSize, visited,
                   interfere,
                   waveNo, calls, rebuilt>>

\* WaitWave whose executor exit does not wait: run() raises as soon as a
\* future has failed.
WaitWaveNoJoin ==
    /\ pc = "wait"
    /\ \/ \A task_name \in wave : wstate[task_name] = "done"
       \/ \E task_name \in wave : wstate[task_name] = "failed"
    /\ pc' = IF \E task_name \in wave : wstate[task_name] = "failed"
             THEN "run_raised" ELSE "loop"
    /\ UNCHANGED <<tasks, precedences, status, sysTasks, initial_precedences,
                   max_parallelism, completed, wave, wstate, poolSize, visited,
                   interfere,
                   waveNo, calls, rebuilt>>

\* for future in futures: future.result().  The loop returns when every
\* future of the wave is done; a future that kept an exception makes result()
\* raise, the executor's exit then waits for the futures still running and
\* run() raises.
WaitWave ==
    /\ pc = "wait"
    /\ \A task_name \in wave : wstate[task_name] \in {"done", "failed"}
    /\ pc' = IF \E task_name \in wave : wstate[task_name] = "failed"
             THEN "run_raised" ELSE "loop"
    /\ UNCHANGED <<tasks, precedences, status, sysTasks, initial_precedences,
                   max_parallelism, completed, wave, wstate, poolSize, visited,
                   interfere,
                   waveNo, calls, rebuilt>>

ExecuteTask ==
    \E task_name \in AllNames :
        \/ ExecuteTaskStart(task_name)
        \/ ExecuteTaskAction(task_name)
        \/ ExecuteTaskRecord(task_name)

----------------------------------------------------------------------------
(* SystemTask.runSeq *)

\* The mapping runSeq builds its graph from.
SeqMapping == max_parallelism

\* G is built and execution_order = list(nx.topological_sort(G)) is taken.
RunSeqCall ==
    /\ pc = "constructed"
    /\ visited' = <<>>
    /\ pc' = "seq"
    /\ UNCHANGED <<tasks, precedences, status, sysTasks, initial_precedences,
                   max_parallelism, completed, wave, wstate, poolSize, interfere,
                   waveNo, calls, rebuilt>>

\* The names gone through so far.
VisitedNames == {visited[k].name : k \in DOMAIN visited}

\* nx.topological_sort: the nodes that may come next in execution_order, the
\* nodes not yet listed whose predecessors are all listed.  Which topological
\* order the library returns depends on its version and on the insertion
\* order of the dicts; every topological order is kept.
NextInOrder(nodes, edges, listed) ==
    {n \in nodes \ listed : \A e \in edges : e[2] = n => e[1] \in listed}

\* SeqAfter when the exception of an action is swallowed.
SeqAfterIgnoresFailure(outcome) == "seq"

\* Where the loop goes after task.run() returned or raised.
SeqAfter(outcome) == IF outcome = "failed" THEN "seq_raised" ELSE "seq"

\* One pass of `for task_name in execution_order`: task = self.tasks[task_name]
\* raises KeyError for a node that is no task; `if task.run: task.run()`
\* returns or raises.  After the last node, return True.
RunSeqStep ==
    /\ pc = "seq"
    /\ LET nodes == GraphNodes(DOMAIN sysTasks, SeqMapping)
           edges == GraphEdges(SeqMapping)
       IN  IF nodes \subseteq VisitedNames
           THEN /\ pc' = "seq_returned"
                /\ UNCHANGED visited
           ELSE \E task_name \in NextInOrder(nodes, edges, VisitedNames) :
                    IF task_name \notin DOMAIN sysTasks
                    THEN /\ pc' = "seq_keyerror"
                         /\ UNCHANGED visited
                    ELSE \E outcome \in {"returned", "failed"} :
                             /\ visited' = Append(visited,
                                    [name |-> task_name, outcome |-> outcome])
                             /\ pc' = SeqAfter(outcome)
    /\ UNCHANGED <<tasks, precedences, status, sysTasks, initial_precedences,
                   max_parallelism, completed, wave, wstate, poolSize, interfere,
                   waveNo, calls, rebuilt>>

----------------------------------------------------------------------------
(* The inputs *)

\* The declarations of one task: reads and writes.
AccessChoices ==
    {acc \in [reads : SUBSET Resources, writes : SUBSET Resources] :
        Cardinality(acc.reads) + Cardinality(acc.writes) <= MaxAccess}

\* The lists of at most MaxTasks names.
NameLists == UNION {[1..n -> Names] : n \in 0..MaxTasks}

\* The lists without repeated name.
UniqueNameLists ==
    {nl \in NameLists : \A i, j \in DOMAIN nl : nl[i] = nl[j] => i = j}

\* The dicts with keys among Names and dependency lists among Names.
Mappings == UNION {[keys -> SUBSET Names] : keys \in SUBSET Names}

NotStarted ==
    /\ status = "new"
    /\ sysTasks = EmptyDict
    /\ initial_precedences = EmptyDict
    /\ max_parallelism = EmptyDict
    /\ pc = "new"
    /\ completed = {}
    /\ wave = {}
    /\ wstate = [n \in AllNames |-> "none"]
    /\ poolSize = 0
    /\ visited = <<>>
    /\ interfere = {}
    /\ waveNo = 0
    /\ calls = 0
    /\ rebuilt = {}

\* The inputs of test.py: test_basic_sequential, test_parallel_execution and
\* test_resource_interference.
TestInputs ==
    { [tasks |-> <<Task("A", {}, {}), Task("B", {}, {}), Task("C", {}, {}),
                   Task("D", {}, {}), Task("E", {}, {})>>,
       precedences |-> [n \in AllNames |->
                           CASE n = "A" -> {}
                             [] n = "B" -> {"A"}
                             [] n = "C" -> {"B"}
                             [] n = "D" -> {"C"}
                             [] n = "E" -> {"D"}]],
      [tasks |-> <<Task("A", {}, {}), Task("B", {}, {}), Task("C", {}, {}),
                   Task("D", {}, {}), Task("E", {}, {})>>,
       precedences |-> [n \in AllNames |->
                           CASE n = "A" -> {}
                             [] n \in {"B", "C"} -> {"A"}
                             [] n \in {"D", "E"} -> {"B", "C"}]],
      [tasks |-> <<Task("A", {}, {"x"}), Task("B", {"x"}, {}),
                   Task("C", {"y"}, {}), Task("D", {}, {"x", "y"})>>,
       precedences |-> [n \in {"A", "B", "C", "D"} |-> {}]] }

NameOrder == <<"A", "B", "C">>

\* The lists that name their tasks in the order A, B, C.
ListsInNameOrder ==
    {nl \in UniqueNameLists : \A i \in DOMAIN nl : nl[i] = NameOrder[i]}

\* An input that passes the four validation checks: a list of distinctly
\* named tasks, taken from nameLists, with any declarations, and a mapping
\* with exactly the task names as keys, only task names as dependencies, and
\* no cycle.
ValidatedInput(nameLists) ==
    \E nl \in nameLists :
    \E prec \in {p \in [SeqToSet(nl) -> SUBSET SeqToSet(nl)] :
                     IsDirectedAcyclicGraph(SeqToSet(nl), GraphEdges(p))} :
    \E acc \in [DOMAIN nl -> AccessChoices] :
        /\ tasks = [i \in DOMAIN nl |-> Task(nl[i], acc[i].reads, acc[i].writes)]
        /\ precedences = prec

TestInput ==
    \E input \in TestInputs :
        /\ tasks = input.tasks
        /\ precedences = input.precedences

\* The inputs of the runs: the validated inputs whose tasks are listed in
\* name order, with every acyclic mapping over them (explicit edges along
\* and against the list order), and the inputs of test.py.  The code compares
\* names for equality only, so a validated input listed in another order
\* runs as the one obtained by renaming its tasks.
Init ==
    /\ ValidatedInput(ListsInNameOrder) \/ TestInput
    /\ NotStarted

\* The inputs of the constructor: the validated inputs in every list order,
\* and the inputs of test.py.
InitBuild ==
    /\ ValidatedInput(UniqueNameLists) \/ TestInput
    /\ NotStarted

\* The inputs of the runs checked for their scheduling (waves, failures,
\* termination): as Init, with declarations over the one resource "x".
\* run() and runSeq() read the declarations only through the
\* maximum-parallelism graph, and with the explicit edges these inputs give
\* every acyclic graph over the listed tasks.
InitFair ==
    /\ \/ \E nl \in ListsInNameOrder :
          \E prec \in {p \in [SeqToSet(nl) -> SUBSET SeqToSet(nl)] :
                           IsDirectedAcyclicGraph(SeqToSet(nl), GraphEdges(p))} :
          \E acc \in [DOMAIN nl -> [reads : SUBSET {"x"}, writes : SUBSET {"x"}]] :
              /\ tasks = [i \in DOMAIN nl |-> Task(nl[i], acc[i].reads, acc[i].writes)]
              /\ precedences = prec
       \/ TestInput
    /\ NotStarted

\* Two tasks with any declarations and no explicit dependency, and the inputs
\* of test.py.
InitInterfere ==
    /\ \/ /\ tasks \in [1..2 -> {Task(NameOrder[i], acc.reads, acc.writes) :
                                     i \in 1..2,
                                     acc \in [reads : SUBSET Resources,
                                              writes : SUBSET Resources]}]
          /\ tasks[1].name = NameOrder[1]
          /\ tasks[2].name = NameOrder[2]
          /\ precedences = [n \in {NameOrder[1], NameOrder[2]} |-> {}]
       \/ TestInput
    /\ NotStarted

\* Any task list (names may repeat) with any mapping; no declarations.
InitValidate ==
    /\ \E nl \in NameLists :
            tasks = [i \in DOMAIN nl |-> Task(nl[i], {}, {})]
    /\ precedences \in Mappings
    /\ NotStarted

Next ==
    \/ Construct
    \/ RunCall
    \/ LoopStep
    \/ ExecuteTask
    \/ WaitWave
    \/ RunSeqCall
    \/ RunSeqStep

Spec == Init /\ [][Next]_vars

\* run() or runSeq() has returned or raised: the caller has the context
\* again and can make the next call.  The locals of the call that ended keep
\* the values they had.
ReturnToCaller ==
    /\ pc \in {"returned", "run_raised", "deadlock",
               "seq_returned", "seq_raised", "seq_keyerror"}
    /\ calls + 1 < MaxCalls
    /\ calls' = calls + 1
    /\ pc' = "constructed"
    /\ UNCHANGED <<tasks, precedences, status, sysTasks, initial_precedences,
                   max_parallelism, completed, wave, wstate, poolSize, visited,
                   interfere, waveNo, rebuilt>>

\* A call of _build_max_parallelism on the constructed context, between two
\* runs: it computes the mapping again from self.initial_precedences and
\* self.tasks and returns it, or raises.
Rebuild ==
    /\ pc = "constructed"
    /\ LET max_parallel ==
               AugmentedMapping(sysTasks, TaskNameList(tasks), initial_precedences)
       IN  IF MaxParallelismHasCycle(TaskNameList(tasks), max_parallel)
           THEN /\ pc' = "rebuild_raised"
                /\ UNCHANGED rebuilt
           ELSE /\ rebuilt' = rebuilt \cup {max_parallel}
                /\ UNCHANGED pc
    /\ UNCHANGED <<tasks, precedences, status, sysTasks, initial_precedences,
                   max_parallelism, completed, wave, wstate, poolSize, visited,
                   interfere, waveNo, calls>>

\* The calls a caller makes one after the other on the context it holds.
NextCalls == Next \/ ReturnToCaller \/ Rebuild

\* The inputs of the repeated calls: the tasks listed in name order, each
\* writing the resource "x" or declaring nothing, with every acyclic mapping
\* over them, and the inputs of test.py (whose tasks also read).  Any two
\* writers interfere, so with the explicit edges these inputs give explicit,
\* derived and mixed graphs.
InitCalls ==
    /\ \/ \E nl \in ListsInNameOrder :
          \E prec \in {p \in [SeqToSet(nl) -> SUBSET SeqToSet(nl)] :
                           IsDirectedAcyclicGraph(SeqToSet(nl), GraphEdges(p))} :
          \E acc \in [DOMAIN nl -> SUBSET {"x"}] :
              /\ tasks = [i \in DOMAIN nl |-> Task(nl[i], {}, acc[i])]
              /\ precedences = prec
       \/ TestInput
    /\ NotStarted

SpecCalls == InitCalls /\ [][NextCalls]_vars

\* The constructor, run() and runSeq() on the inputs of InitFair.
SpecRun == InitFair /\ [][Next]_vars

\* The steps of run() and of its pool threads.
RunStep == LoopStep \/ ExecuteTask \/ WaitWave

\* The thread that called run() and the pool threads keep being scheduled,
\* and an action that was started ends: a step of run() that stays possible
\* is taken.
SpecFair == InitFair /\ [][Next]_vars /\ WF_vars(RunStep)

\* The constructor alone.
SpecBuild == InitBuild /\ [][Construct]_vars

SpecValidate == InitValidate /\ [][Next]_vars

\* The constructor, then calls of _are_tasks_interfering.
SpecInterfere == InitInterfere /\ [][Construct \/ CheckInterference]_vars

----------------------------------------------------------------------------
(* The properties.  They are stated with the definitions of this section, *)
(* not with the operators that model the code.                             *)

\* The edges <<u, v>> (u before v) of a mapping name -> dependencies.
EdgesOf(m) == {e \in AllNames \X AllNames : e[2] \in DOMAIN m /\ e[1] \in m[e[2]]}

\* The nodes reached from the set S along the edges (S included).
RECURSIVE Closure(_, _)
Closure(edges, S) ==
    LET more == S \cup {e[2] : e \in {f \in edges : f[1] \in S}}
    IN  IF more = S THEN S ELSE Closure(edges, more)

\* A path of at least one edge leads from u to v.
PathExists(edges, u, v) ==
    v \in Closure(edges, {e[2] : e \in {f \in edges : f[1] = u}})

HasCycle(edges) == \E e \in edges : PathExists(edges, e[1], e[1])

\* The hazard rule of the interference analysis: write/write, write/read or
\* read/write overlap.
Hazard(t1, t2) ==
    \/ \E r \in t1.writes : r \in t2.writes
    \/ \E r \in t1.writes : r \in t2.reads
    \/ \E r \in t1.reads : r \in t2.writes

\* The action of the task has started / is executing.
ActionStarted(n) == wstate[n] \in {"running", "finished", "done"}
Executing(n) == wstate[n] = "running"

ExplicitEdges == EdgesOf(initial_precedences)
MaxParallelEdges == EdgesOf(max_parallelism)
DerivedEdges == MaxParallelEdges \ ExplicitEdges

\* The pairs of distinct tasks of the context that interfere.
InterferingPairs ==
    {p \in (DOMAIN sysTasks) \X (DOMAIN sysTasks) :
        p[1] # p[2] /\ Hazard(sysTasks[p[1]], sysTasks[p[2]])}

\* C1: in run, for every edge u -> v of the maximum-parallelism graph, once
\* the action of v has started u is in the completed set and its action is
\* over, and u and v never execute at the same time.
C1_PredecessorCompletesFirst ==
    \A e \in MaxParallelEdges :
        /\ ActionStarted(e[2]) => e[1] \in completed /\ wstate[e[1]] = "done"
        /\ ~(Executing(e[1]) /\ Executing(e[2]))

C1_Witness ==
    \E e \in MaxParallelEdges : Executing(e[2]) /\ e[1] \in completed

\* C2: in run, two distinct tasks that interfere never execute at the same
\* time.
C2_InterferingNeverOverlap ==
    \A p \in InterferingPairs : ~(Executing(p[1]) /\ Executing(p[2]))

\* An interfering pair that no explicit dependency joins: one has run, the
\* other is executing.
C2_Witness ==
    \E p \in InterferingPairs :
        /\ <<p[1], p[2]>> \notin ExplicitEdges
        /\ <<p[2], p[1]>> \notin ExplicitEdges
        /\ wstate[p[1]] = "done"
        /\ Executing(p[2])

\* C3: the constructor never fails with 'Maximum parallelism graph has
\* cycles' on an input that passes the four validation checks.
C3_AugmentedGraphAcyclic == status # "mp_cycle"

\* C4: in a constructed context, two distinct interfering tasks neither of
\* which lists the other as explicit dependency are joined by a direct edge
\* of the maximum-parallelism graph, in one direction at least.
C4_InterferingPairsJoined ==
    status = "ok" =>
        \A p \in InterferingPairs :
            (<<p[1], p[2]>> \notin ExplicitEdges /\ <<p[2], p[1]>> \notin ExplicitEdges)
                => (<<p[1], p[2]>> \in MaxParallelEdges \/ <<p[2], p[1]>> \in MaxParallelEdges)

C4_Witness ==
    /\ status = "ok"
    /\ \E p \in InterferingPairs :
           /\ <<p[1], p[2]>> \in DerivedEdges
           /\ <<p[2], p[1]>> \notin MaxParallelEdges

\* C5 as stated: in a constructed context, removing any one derived edge
\* leaves some interfering pair with no path between its tasks in either
\* direction.
C5_NoDerivedEdgeRedundant ==
    status = "ok" =>
        \A d \in DerivedEdges :
            \E p \in InterferingPairs :
                /\ ~PathExists(MaxParallelEdges \ {d}, p[1], p[2])
                /\ ~PathExists(MaxParallelEdges \ {d}, p[2], p[1])

\* C5 amended: in a constructed context, removing any one derived edge leaves
\* some interfering pair with no direct edge between its tasks in either
\* direction.
C5_NoDerivedEdgeDirectlyRedundant ==
    status = "ok" =>
        \A d \in DerivedEdges :
            \E p \in InterferingPairs :
                /\ <<p[1], p[2]>> \notin MaxParallelEdges \ {d}
                /\ <<p[2], p[1]>> \notin MaxParallelEdges \ {d}

\* A derived edge joins a pair that the explicit graph orders through a third
\* task only.
C5_Witness ==
    /\ status = "ok"
    /\ \E d \in DerivedEdges : PathExists(ExplicitEdges, d[1], d[2])

\* C6: in a constructed context the maximum-parallelism graph has no cycle.
C6_MaxParallelismAcyclic == status = "ok" => ~HasCycle(MaxParallelEdges)

\* A context with two derived edges and an explicit one.
C6_Witness ==
    /\ status = "ok"
    /\ Cardinality(DerivedEdges) >= 2
    /\ ExplicitEdges # {}

\* C7: in a constructed context, every edge of the caller's precedence
\* mapping is an edge of the maximum-parallelism graph, in the same direction.
C7_ExplicitEdgesKept ==
    status = "ok" =>
        /\ EdgesOf(precedences) \subseteq MaxParallelEdges
        /\ DOMAIN precedences \subseteq DOMAIN max_parallelism

\* An explicit edge from a later-listed task to an earlier-listed one that
\* interferes with it, next to a derived edge.
C7_Witness ==
    /\ status = "ok"
    /\ DerivedEdges # {}
    /\ \E i, j \in DOMAIN tasks :
           /\ i < j
           /\ Hazard(tasks[i], tasks[j])
           /\ <<tasks[j].name, tasks[i].name>> \in EdgesOf(precedences)

\* C8: in a constructed context, every key and every listed dependency of
\* the explicit mapping and of the maximum-parallelism mapping is the name of
\* a task.
C8_EveryNameIsATask ==
    status = "ok" =>
        /\ DOMAIN initial_precedences \subseteq DOMAIN sysTasks
        /\ DOMAIN max_parallelism \subseteq DOMAIN sysTasks
        /\ \A e \in ExplicitEdges \cup MaxParallelEdges : e[1] \in DOMAIN sysTasks

\* The four conditions, on the constructor's arguments.
InputRepeatsName ==
    \E i, j \in DOMAIN tasks : i # j /\ tasks[i].name = tasks[j].name
InputMissesEntry ==
    \E i \in DOMAIN tasks : tasks[i].name \notin DOMAIN precedences
InputDangles ==
    \E e \in EdgesOf(precedences) : \A i \in DOMAIN tasks : tasks[i].name # e[1]
InputHasCycle == HasCycle(EdgesOf(precedences))

ValidationErrors == {"duplicate", "missing", "dangling", "cycle"}

\* C9: the constructor raises, and builds no context, whenever the input has
\* a repeated task name, a task name without entry, a dependency that is no
\* task name or an explicit cycle; each failure is raised only on an input
\* that has its condition, and an input with one condition alone gets the
\* failure of that condition.
C9_InvalidInputFails ==
    pc # "new" =>
        /\ (InputRepeatsName \/ InputMissesEntry \/ InputDangles \/ InputHasCycle)
               => /\ status \in ValidationErrors
                  /\ pc = "raised"
                  /\ sysTasks = EmptyDict /\ max_parallelism = EmptyDict
        /\ status = "duplicate" => InputRepeatsName
        /\ status = "missing" => InputMissesEntry
        /\ status = "dangling" => InputDangles
        /\ status = "cycle" => InputHasCycle
        /\ (InputRepeatsName /\ ~InputMissesEntry /\ ~InputDangles /\ ~InputHasCycle)
               => status = "duplicate"
        /\ (~InputRepeatsName /\ InputMissesEntry /\ ~InputDangles /\ ~InputHasCycle)
               => status = "missing"
        /\ (~InputRepeatsName /\ ~InputMissesEntry /\ InputDangles /\ ~InputHasCycle)
               => status = "dangling"
        /\ (~InputRepeatsName /\ ~InputMissesEntry /\ ~InputDangles /\ InputHasCycle)
               => status = "cycle"

\* The constructor has raised on an input whose only fault is a dependency
\* that is no task name.
C9_Witness ==
    /\ pc = "raised"
    /\ status = "dangling"
    /\ ~InputRepeatsName /\ ~InputMissesEntry /\ ~InputHasCycle

\* C10: the failure raised is that of the first violated check in the order
\* duplicate name, missing entry, dangling dependency, explicit cycle.
C10_EarliestCheckReported ==
    pc # "new" =>
        /\ InputRepeatsName => status = "duplicate"
        /\ (~InputRepeatsName /\ InputMissesEntry) => status = "missing"
        /\ (~InputRepeatsName /\ ~InputMissesEntry /\ InputDangles)
               => status = "dangling"
        /\ (~InputRepeatsName /\ ~InputMissesEntry /\ ~InputDangles /\ InputHasCycle)
               => status = "cycle"

\* The constructor has raised on an input with a missing entry and a dangling
\* dependency, and on one with a repeated name and a missing entry.
C10_Witness ==
    /\ pc = "raised"
    /\ \/ ~InputRepeatsName /\ InputMissesEntry /\ InputDangles /\ status = "missing"
       \/ InputRepeatsName /\ InputMissesEntry /\ status = "duplicate"

\* The expected interference of test_resource_interference, by task names.
ScenarioInterfering ==
    {<<"A", "B">>, <<"A", "D">>, <<"B", "D">>, <<"C", "D">>,
     <<"B", "A">>, <<"D", "A">>, <<"D", "B">>, <<"D", "C">>}

IsResourceScenario ==
    /\ Len(tasks) = 4
    /\ tasks[1] = [name |-> "A", reads |-> {}, writes |-> {"x"}]
    /\ tasks[2] = [name |-> "B", reads |-> {"x"}, writes |-> {}]
    /\ tasks[3] = [name |-> "C", reads |-> {"y"}, writes |-> {}]
    /\ tasks[4] = [name |-> "D", reads |-> {}, writes |-> {"x", "y"}]

\* C11: _are_tasks_interfering answers true exactly when the writes of the
\* two tasks overlap, or the writes of one overlap the reads of the other; two
\* tasks that share reads only do not interfere; on A(writes x), B(reads x),
\* C(reads y), D(writes x, y) the pairs A-B, A-D, B-D, C-D interfere and A-C,
\* B-C do not.
C11_InterferenceRule ==
    \A c \in interfere :
        LET t1 == tasks[c.first]
            t2 == tasks[c.second]
        IN  /\ c.result = Hazard(t1, t2)
            /\ (t1.writes = {} /\ t2.writes = {}) => c.result = FALSE
            /\ (IsResourceScenario /\ c.first # c.second)
                   => (c.result = (<<t1.name, t2.name>> \in ScenarioInterfering))

\* On the scenario, C-D was found to interfere and A-C not to.
C11_Witness ==
    /\ IsResourceScenario
    /\ [first |-> 3, second |-> 4, result |-> TRUE] \in interfere
    /\ [first |-> 1, second |-> 3, result |-> FALSE] \in interfere

\* C12: _are_tasks_interfering gives the same answer for (A, B) and (B, A).
C12_InterferenceSymmetric ==
    \A c1, c2 \in interfere :
        (c1.first = c2.second /\ c1.second = c2.first) => c1.result = c2.result

\* Both orders of a pair were asked, one task only reading and the other
\* only writing the resource they share.
C12_Witness ==
    \E c1, c2 \in interfere :
        /\ c1.first = c2.second /\ c1.second = c2.first
        /\ c1.first # c1.second
        /\ tasks[c1.first].writes = {} /\ tasks[c1.second].reads = {}
        /\ c1.result = TRUE /\ c2.result = TRUE

\* The position of a name in visited (0 when it was not visited).
VisitedAt(n) ==
    IF \E k \in DOMAIN visited : visited[k].name = n
    THEN CHOOSE k \in DOMAIN visited : visited[k].name = n
    ELSE 0

VisitedOnce ==
    \A k1, k2 \in DOMAIN visited : visited[k1].name = visited[k2].name => k1 = k2

\* C13: runSeq goes through the tasks one by one, no task twice, the
\* predecessor of every maximum-parallelism edge strictly before its
\* successor; it stops early only when an action fails, and returns once
\* every task was visited exactly once.
C13_SequentialVisitsAllInOrder ==
    /\ pc # "seq_keyerror"
    /\ VisitedOnce
    /\ \A k \in DOMAIN visited : visited[k].name \in DOMAIN sysTasks
    /\ \A e \in MaxParallelEdges :
           VisitedAt(e[2]) # 0 => (VisitedAt(e[1]) # 0 /\ VisitedAt(e[1]) < VisitedAt(e[2]))
    /\ pc = "seq_returned" =>
           /\ {visited[k].name : k \in DOMAIN visited} = DOMAIN sysTasks
           /\ \A k \in DOMAIN visited : visited[k].outcome = "returned"

\* C14: run executes every task exactly once and ends, as runSeq does, with
\* every task completed; without a failing action both calls succeed.
C14_ConcurrentAgreesWithSequential ==
    /\ pc = "returned" =>
           /\ completed = DOMAIN sysTasks
           /\ \A n \in DOMAIN sysTasks : wstate[n] = "done"
    /\ pc = "seq_returned" =>
           /\ VisitedOnce
           /\ {visited[k].name : k \in DOMAIN visited} = DOMAIN sysTasks
    /\ pc = "run_raised" => \E n \in DOMAIN sysTasks : wstate[n] = "failed"
    /\ pc = "seq_raised" => \E k \in DOMAIN visited : visited[k].outcome = "failed"
    /\ pc \notin {"deadlock", "seq_keyerror"}

\* The names the scan would find ready.
ReadyNames ==
    {n \in DOMAIN sysTasks :
        n \notin completed /\ \A e \in MaxParallelEdges : e[2] = n => e[1] \in completed}

\* C15: run never reaches a scan that finds no ready task while tasks remain
\* to complete, and never raises the deadlock error.
C15_NoDeadlock ==
    /\ (pc = "loop" /\ completed # DOMAIN sysTasks) => ReadyNames # {}
    /\ pc # "deadlock"

\* A scan between two waves: some tasks completed, some left.
C15_Witness ==
    /\ pc = "loop"
    /\ completed # {}
    /\ completed # DOMAIN sysTasks

\* C16: under fair scheduling a run whose actions all return reaches the
\* state where every task is completed and returns.
C16_RunTerminates ==
    (pc = "loop") ~> (pc = "returned" \/ \E n \in AllNames : wstate[n] = "failed")

\* run has returned and its last wave had more tasks than the pool threads.
C16_Witness ==
    /\ pc = "returned"
    /\ completed = DOMAIN sysTasks
    /\ Cardinality(wave) > poolSize

\* The tasks submitted whose future is not done yet.
InFlight == {n \in AllNames : wstate[n] \in {"submitted", "running", "finished"}}

\* C17: the tasks in flight all belong to the current wave and the caller of
\* run is then waiting for them; when the caller gets to the next scan, every
\* task of the wave has finished and is in the completed set, and the
\* completed set holds exactly the tasks that have finished.
C17_WaveBarrier ==
    /\ InFlight # {} => (pc = "wait" /\ InFlight \subseteq wave)
    /\ pc = "loop" => \A n \in wave : wstate[n] = "done" /\ n \in completed
    /\ pc \in {"loop", "wait", "returned", "run_raised"} =>
           completed = {n \in AllNames : wstate[n] = "done"}

\* The scan after a wave of two tasks or more, with tasks left to run.
C17_Witness ==
    /\ pc = "loop"
    /\ Cardinality(wave) >= 2
    /\ completed # DOMAIN sysTasks

\* C18: once an action has failed, run makes no further scan and raises; by
\* then every task of the failing wave has run to its end, no task outside
\* the waves dispatched so far has started, and the failing task is not in
\* the completed set.
C18_FailureInRun ==
    /\ \A n \in AllNames : wstate[n] = "failed" =>
           /\ pc \in {"wait", "run_raised"}
           /\ n \in wave
           /\ n \notin completed
    /\ pc = "run_raised" =>
           /\ \E n \in wave : wstate[n] = "failed"
           /\ \A n \in wave : wstate[n] \in {"done", "failed"}
           /\ \A n \in AllNames \ wave : wstate[n] \in {"none", "done"}
    /\ pc = "returned" => \A n \in AllNames : wstate[n] # "failed"

\* run has raised: one task of the wave failed, a sibling completed, and a
\* task of a later wave never started.
C18_Witness ==
    /\ pc = "run_raised"
    /\ \E n, m \in wave : wstate[n] = "failed" /\ wstate[m] = "done"
    /\ \E n \in DOMAIN sysTasks : wstate[n] = "none"

\* C19: in runSeq a failing action is the last one executed: runSeq raises at
\* once, the tasks before it were executed once each, in an order that
\* respects the maximum-parallelism edges, and nothing is executed after it
\* or again.
C19_FailureInRunSeq ==
    /\ \A k \in DOMAIN visited : visited[k].outcome = "failed" =>
           (k = Len(visited) /\ pc = "seq_raised")
    /\ pc = "seq_raised" =>
           /\ visited # <<>>
           /\ visited[Len(visited)].outcome = "failed"
           /\ VisitedOnce
           /\ \A e \in MaxParallelEdges :
                  VisitedAt(e[2]) # 0 =>
                      (VisitedAt(e[1]) # 0 /\ VisitedAt(e[1]) < VisitedAt(e[2]))

\* runSeq has raised at its second task or later, with a task left.
C19_Witness ==
    /\ pc = "seq_raised"
    /\ Len(visited) >= 2
    /\ \E n \in DOMAIN sysTasks : VisitedAt(n) = 0

\* The pairs <<i, j>> of positions of the task list, i before j, whose tasks
\* interfere without either listing the other as explicit dependency.
DerivedPairs ==
    {p \in (DOMAIN tasks) \X (DOMAIN tasks) :
        /\ p[1] < p[2]
        /\ Hazard(tasks[p[1]], tasks[p[2]])
        /\ <<tasks[p[1]].name, tasks[p[2]].name>> \notin EdgesOf(precedences)
        /\ <<tasks[p[2]].name, tasks[p[1]].name>> \notin EdgesOf(precedences)}

\* C20: the derived edges of a constructed context are exactly the edges
\* from the earlier-listed to the later-listed task of every pair that
\* interferes without direct explicit dependency.
C20_DerivedEdgesExact ==
    status = "ok" =>
        DerivedEdges = {<<tasks[p[1]].name, tasks[p[2]].name>> : p \in DerivedPairs}

\* A derived edge from a task that only reads to a later-listed task that
\* writes, and one from a writer to a later-listed reader.
C20_Witness ==
    /\ status = "ok"
    /\ \E p \in DerivedPairs :
           /\ tasks[p[1]].writes = {}
           /\ <<tasks[p[1]].name, tasks[p[2]].name>> \in DerivedEdges
    /\ \E p \in DerivedPairs :
           /\ tasks[p[2]].writes = {}
           /\ <<tasks[p[1]].name, tasks[p[2]].name>> \in DerivedEdges

\* The completed set as it was at the scan that dispatched the current wave.
CompletedAtScan == completed \ wave

\* The tasks that were ready at the scan that dispatched the current wave.
ReadyAtScan ==
    {n \in DOMAIN sysTasks :
        /\ n \notin CompletedAtScan
        /\ \A e \in MaxParallelEdges : e[2] = n => e[1] \in CompletedAtScan}

\* C21: the wave dispatched by a scan is exactly the set of tasks that were
\* ready at that scan: every task not completed whose maximum-parallelism
\* predecessors were all completed, and no other task; every task of the
\* wave has been submitted.
C21_WaveIsReadySet ==
    pc \in {"wait", "run_raised"} =>
        /\ wave = ReadyAtScan
        /\ \A n \in wave : wstate[n] # "none"

\* A wave of two tasks or more that follows an earlier wave and is itself
\* awaited by a task: two of its tasks execute at the same time.
C21_Witness ==
    /\ pc = "wait"
    /\ CompletedAtScan # {}
    /\ \E n, m \in wave : n # m /\ wstate[n] = "running" /\ wstate[m] = "running"
    /\ \E n \in DOMAIN sysTasks : n \notin wave /\ wstate[n] = "none"

\* The largest number of a non-empty finite set of naturals.
Largest(S) == CHOOSE x \in S : \A y \in S : y <= x

\* The number of tasks on the longest path of the acyclic graph that ends at n.
RECURSIVE LongestPathTo(_, _)
LongestPathTo(edges, n) ==
    LET preds == {e[1] : e \in {f \in edges : f[2] = n}}
    IN  IF preds = {} THEN 1
        ELSE 1 + Largest({LongestPathTo(edges, p) : p \in preds})

\* The number of tasks on the longest path of the maximum-parallelism graph.
LongestPath ==
    IF DOMAIN sysTasks = {} THEN 0
    ELSE Largest({LongestPathTo(MaxParallelEdges, n) : n \in DOMAIN sysTasks})

\* The maximum-parallelism graph is the chain of the tasks in list order.
IsLinearChain ==
    /\ status = "ok"
    /\ MaxParallelEdges =
           {<<tasks[i].name, tasks[i + 1].name>> : i \in 1..(Len(tasks) - 1)}

\* C22: every task of the wave number k is the end of a longest
\* maximum-parallelism path of k tasks, and run returns after as many waves
\* as the longest path has tasks; when the graph is the chain of the tasks in
\* list order, the wave number k is the k-th task alone and runSeq executes
\* the tasks in list order.
C22_WaveNumberIsPathLength ==
    /\ pc \in {"wait", "run_raised"} =>
           \A n \in wave : LongestPathTo(MaxParallelEdges, n) = waveNo
    /\ pc = "returned" => waveNo = LongestPath
    /\ IsLinearChain =>
           /\ pc \in {"wait", "run_raised"} => wave = {tasks[waveNo].name}
           /\ pc \in {"seq", "seq_raised", "seq_returned"} =>
                  \A k \in DOMAIN visited : visited[k].name = tasks[k].name

\* The third wave is a task with one predecessor from the first wave and one
\* from the second.
C22_Witness ==
    /\ pc = "wait"
    /\ waveNo = 3
    /\ \E n \in wave : \E p, q \in DOMAIN sysTasks :
           /\ <<p, n>> \in MaxParallelEdges
           /\ <<q, n>> \in MaxParallelEdges
           /\ LongestPathTo(MaxParallelEdges, p) = 1
           /\ LongestPathTo(MaxParallelEdges, q) = 2

\* The positions of the caller inside a call of run().
InRun == {"loop", "wait", "returned", "run_raised", "deadlock"}

\* C23: on a constructed context no step of run, runSeq or
\* _build_max_parallelism changes the task dict, the explicit mapping or the
\* maximum-parallelism mapping, and every later _build_max_parallelism
\* returns the mapping the constructor stored.  The completed set is empty
\* when a run starts, only grows during the run and holds task names only;
\* no task is submitted twice in a run, and a run that returns, the first or
\* a later one, has completed every task.
C23_ContextUnchanged ==
    /\ [][status = "ok" =>
             /\ sysTasks' = sysTasks
             /\ initial_precedences' = initial_precedences
             /\ max_parallelism' = max_parallelism]_vars
    /\ [](\A g \in rebuilt : g = max_parallelism)
    /\ [](pc # "rebuild_raised")
    /\ [][(pc = "constructed" /\ pc' = "loop") => completed' = {}]_vars
    /\ [][(pc \in InRun /\ pc' \in InRun) => completed \subseteq completed']_vars
    /\ [](completed \subseteq DOMAIN sysTasks)
    /\ [][\A n \in AllNames :
             (wstate'[n] = "submitted" /\ wstate[n] # "submitted")
                 => wstate[n] = "none"]_vars
    /\ [](pc = "returned" =>
             /\ completed = DOMAIN sysTasks
             /\ \A n \in DOMAIN sysTasks : wstate[n] = "done")

\* The second run on a context with a derived edge has returned, after a
\* call of _build_max_parallelism.
C23_Witness ==
    /\ calls = 1
    /\ pc = "returned"
    /\ completed = DOMAIN sysTasks
    /\ Cardinality(completed) >= 2
    /\ DerivedEdges # {}
    /\ rebuilt # {}

====
